---- MODULE Spec2Model ----
(***************************************************************************)
(* Model of internal/ui/ui_glfw.go: the main-thread dispatcher             *)
(* (RunMainThreadLoop / runOnMainThread), the public control surface, the  *)
(* frame loop started by Run, and the screen geometry state machine       *)
(* (setScreenSize and the scale helpers).                                  *)
(*                                                                         *)
(* float64 values are modelled as exact non-negative rationals <<n, d>>    *)
(* in lowest terms; the inputs are chosen so that every product and        *)
(* quotient the code computes on them is exact in float64 as well, or so   *)
(* far from an integer that int() truncates it as it does the exact value. *)
(***************************************************************************)
EXTENDS Integers, Sequences, FiniteSets, TLC

(***************************************************************************)
(* Bounds and input sets.                                                  *)
(***************************************************************************)
\* Number of goroutines calling the public control surface concurrently
\* with the goroutine that executes Run.
NumCallers == 2

\* Number of goroutines started by SetCursorVisibility that are alive at the
\* same time.
MaxCursor == 2

\* Display mode of the primary monitor (glfw.GetPrimaryMonitor().GetVideoMode()).
VideoWidth == 1920
VideoHeight == 1080

\* Size of the placeholder window created by initialize and used again by
\* setScreenSize when it detaches the window from the monitor.
PlaceholderSize == 16

\* The sentinel stored in origPosX / origPosY for "no remembered position".
NoPos == -1

minWindowWidth == 252

\* (width, height) pairs passed to SetScreenSize and Run.
Sizes == {<<640, 480>>, <<160, 120>>}

\* Scales passed to SetScreenScale and Run, as rationals.
Scales == {<<1, 1>>, <<2, 1>>}

\* Window positions the user can drag the window to (screen coordinates;
\* negative on a monitor left of / above the primary one).
Positions == {<<0, 50>>, <<-8, -8>>}

\* Position at which the platform creates the hidden placeholder window.
CreatePos == <<0, 50>>

\* (deviceScale(), glfwScale()) pairs of the platform the program runs on.
PlatformScales == {<<1, 1>>, <<2, 1>>}

\* The same, with a platform whose window units are not logical pixels.
ScaledPlatformScales == PlatformScales \cup {<<2, 2>>}

RunThread == 0
FirstCaller == 1
Callers == FirstCaller..NumCallers

\* The goroutines SetCursorVisibility starts: at most MaxCursor are alive.
CursorThreads == (NumCallers + 1)..(NumCallers + MaxCursor)
Threads == {RunThread} \cup Callers \cup CursorThreads

(***************************************************************************)
(* float64 arithmetic on exact rationals.                                  *)
(***************************************************************************)
RECURSIVE GCD(_, _)
GCD(a, b) == IF b = 0 THEN a ELSE GCD(b, a % b)

Rat(n, d) == LET g == GCD(n, d) IN <<n \div g, d \div g>>

Zero == <<0, 1>>

ToRat(i) == <<i, 1>>

RMul(a, b) == Rat(a[1] * b[1], a[2] * b[2])

\* Only called with b # Zero (see getScale).
RDiv(a, b) == Rat(a[1] * b[2], a[2] * b[1])

RLt(a, b) == a[1] * b[2] < b[1] * a[2]

\* Go's int(f) conversion of a non-negative float64: truncation.
RTrunc(a) == a[1] \div a[2]

\* Go's integer division truncates toward zero.
GoDiv(a, b) == IF a >= 0 THEN a \div b ELSE -((-a) \div b)

(***************************************************************************)
(* The geometry state machine.  u is the userInterface record (the fields  *)
(* the dispatched units read and write), win the platform window, p the    *)
(* platform's (deviceScale, glfwScale).  Each helper returns the updated   *)
(* record together with its value, because the Go methods fill caches.     *)
(***************************************************************************)
\* u.glfwScale is fetched from the platform the first time it is needed.
withGlfwScale(u, p) ==
    IF u.glfwScale = Zero THEN [u EXCEPT !.glfwScale = p.glfwScale] ELSE u

\* u.deviceScale likewise.
withDeviceScale(u, p) ==
    IF u.deviceScale = Zero THEN [u EXCEPT !.deviceScale = p.deviceScale] ELSE u

\* The return statement of glfwSize, once u.glfwScale is filled.
glfwSizeOf(u) ==
    [u |-> u,
     w |-> RTrunc(RMul(RMul(ToRat(u.width), u.scale), u.glfwScale)),
     h |-> RTrunc(RMul(RMul(ToRat(u.height), u.scale), u.glfwScale))]

glfwSize(u, p) == glfwSizeOf(withGlfwScale(u, p))

\* s := sw; if s > sh { s = sh }
minScale(sw, sh) == IF RLt(sh, sw) THEN sh ELSE sw

\* u.fullscreenScale = s; return u.fullscreenScale
cacheFullscreenScale(u, s) == [u |-> [u EXCEPT !.fullscreenScale = s], v |-> s]

\* fitFullscreenScale fitting the width only.
fitFullscreenScaleToWidth(u) ==
    cacheFullscreenScale(u, RDiv(RDiv(ToRat(VideoWidth), u.glfwScale), ToRat(u.width)))

\* The body of `if u.fullscreenScale == 0`, once u.glfwScale is filled.
fitFullscreenScale(u) ==
    cacheFullscreenScale(u,
        minScale(RDiv(RDiv(ToRat(VideoWidth), u.glfwScale), ToRat(u.width)),
                 RDiv(RDiv(ToRat(VideoHeight), u.glfwScale), ToRat(u.height))))

getScale(u, p) ==
    IF ~u.fullscreen
    THEN [u |-> u, v |-> u.scale]
    ELSE IF u.fullscreenScale = Zero
         THEN fitFullscreenScale(withGlfwScale(u, p))
         ELSE [u |-> u, v |-> u.fullscreenScale]

\* return u.getScale() * u.deviceScale, g being what getScale produced.
timesDeviceScale(g) == [u |-> g.u, v |-> RMul(g.v, g.u.deviceScale)]

actualScreenScale(u, p) == timesDeviceScale(getScale(withDeviceScale(u, p), p))

\* window.SetMonitor(m, 0, 0, v.Width, v.Height, v.RefreshRate)
AttachMonitor(win) ==
    [win EXCEPT !.monitor = TRUE, !.pos = <<0, 0>>,
                !.size = <<VideoWidth, VideoHeight>>]

\* window.SetMonitor(nil, x, y, 16, 16, v.RefreshRate)
DetachMonitor(win, x, y) ==
    [win EXCEPT !.monitor = FALSE, !.pos = <<x, y>>,
                !.size = <<PlaceholderSize, PlaceholderSize>>]

\* The branch of setScreenSize taken when u.fullscreen is true after line 377.
enterFullscreen(u, win) ==
    IF u.origPosX < 0 /\ u.origPosY < 0
    THEN [u |-> [u EXCEPT !.origPosX = win.pos[1], !.origPosY = win.pos[2]],
          win |-> AttachMonitor(win), calls |-> <<"GetPos", "SetMonitor">>,
          hangs |-> FALSE]
    ELSE [u |-> u, win |-> AttachMonitor(win), calls |-> <<"SetMonitor">>,
          hangs |-> FALSE]

\* The platform delivers the framebuffer-size callback, during PollEvents,
\* when SetSize(w, h) changes the size of the window, and only then.
CallbackFires(win, w, h) == win.size # <<w, h>>

\* Lines 395-412: window.SetSize(w, h) with the (w, h) of glfwSize, then
\* PollEvents until the framebuffer-size callback has closed ch, then
\* SetTitle.  hangs: the callback never comes, the `for` loop never ends.
resizeWindow(sz, win, calls) ==
    IF CallbackFires(win, sz.w, sz.h)
    THEN [u |-> sz.u, win |-> [win EXCEPT !.size = <<sz.w, sz.h>>],
          calls |-> calls \o <<"SetFramebufferSizeCallback", "SetSize", "PollEvents",
                               "SetTitle">>,
          hangs |-> FALSE]
    ELSE [u |-> sz.u, win |-> win,
          calls |-> calls \o <<"SetFramebufferSizeCallback", "SetSize", "PollEvents">>,
          hangs |-> TRUE]

\* The branch taken when u.fullscreen is false: restore and forget the
\* remembered position if there is one, then resize the window.
leaveFullscreen(u, win, p) ==
    IF u.origPosX >= 0 /\ u.origPosY >= 0
    THEN resizeWindow(glfwSize([u EXCEPT !.origPosX = NoPos, !.origPosY = NoPos], p),
                      DetachMonitor(win, u.origPosX, u.origPosY), <<"SetMonitor">>)
    ELSE resizeWindow(glfwSize(u, p), win, <<>>)

\* withSize without the assignment of line 370.
withSizeKeepingFit(u, width, height) ==
    IF u.width # width \/ u.height # height
    THEN [u EXCEPT !.width = width, !.height = height]
    ELSE u

\* Lines 367-371: take over width and height, invalidating the fit scale.
withSize(u, width, height) ==
    IF u.width # width \/ u.height # height
    THEN [u EXCEPT !.width = width, !.height = height, !.fullscreenScale = Zero]
    ELSE u

\* accept without the assignment of line 415.
acceptWithoutSizeChanged(b) ==
    [u |-> b.u, win |-> b.win, ret |-> ~b.hangs,
     calls |-> <<"SwapBuffers">> \o b.calls, hangs |-> b.hangs]

\* Lines 415-416, b being what the fullscreen / windowed branch produced;
\* they are not reached when the branch never ends.
accept(b) ==
    IF b.hangs
    THEN [u |-> b.u, win |-> b.win, ret |-> FALSE,
          calls |-> <<"SwapBuffers">> \o b.calls, hangs |-> TRUE]
    ELSE [u |-> [b.u EXCEPT !.sizeChanged = TRUE], win |-> b.win,
          ret |-> TRUE, calls |-> <<"SwapBuffers">> \o b.calls, hangs |-> FALSE]

\* The geometry change of setScreenSize after its two early returns (lines 367-416).
applyScreenSize(u, win, p, width, height, fullscreen) ==
    IF fullscreen
    THEN accept(enterFullscreen([withSize(u, width, height) EXCEPT !.fullscreen = TRUE],
                                win))
    ELSE accept(leaveFullscreen([withSize(u, width, height) EXCEPT !.fullscreen = FALSE],
                                win, p))

\* Lines 363-366 and what follows, a being actualScreenScale() under the
\* tentative scale and origScale the scale to roll back to.
guardWidth(a, origScale, win, p, width, height, fullscreen) ==
    IF RTrunc(RMul(ToRat(width), a.v)) < minWindowWidth
    THEN [u |-> [a.u EXCEPT !.scale = origScale], win |-> win,
          ret |-> FALSE, calls |-> <<>>, hangs |-> FALSE]
    ELSE applyScreenSize(a.u, win, p, width, height, fullscreen)

\* guardWidth leaving the tentative scale in place when it rejects.
guardWidthNoRollback(a, origScale, win, p, width, height, fullscreen) ==
    IF RTrunc(RMul(ToRat(width), a.v)) < minWindowWidth
    THEN [u |-> a.u, win |-> win, ret |-> FALSE, calls |-> <<>>, hangs |-> FALSE]
    ELSE applyScreenSize(a.u, win, p, width, height, fullscreen)

\* setScreenSize without the test of lines 351-353.
setScreenSizeNoEarlyReturn(u, win, p, width, height, scale, fullscreen) ==
    guardWidth(actualScreenScale([u EXCEPT !.scale = scale], p), u.scale,
               win, p, width, height, fullscreen)

\* setScreenSize without the roll-back of line 364.
setScreenSizeNoRollback(u, win, p, width, height, scale, fullscreen) ==
    IF u.width = width /\ u.height = height /\ u.scale = scale
       /\ u.fullscreen = fullscreen
    THEN [u |-> u, win |-> win, ret |-> FALSE, calls |-> <<>>, hangs |-> FALSE]
    ELSE guardWidthNoRollback(actualScreenScale([u EXCEPT !.scale = scale], p), u.scale,
                              win, p, width, height, fullscreen)

setScreenSize(u, win, p, width, height, scale, fullscreen) ==
    IF u.width = width /\ u.height = height /\ u.scale = scale
       /\ u.fullscreen = fullscreen
    THEN [u |-> u, win |-> win, ret |-> FALSE, calls |-> <<>>, hangs |-> FALSE]
    ELSE guardWidth(actualScreenScale([u EXCEPT !.scale = scale], p), u.scale,
                    win, p, width, height, fullscreen)

(***************************************************************************)
(* State.                                                                  *)
(***************************************************************************)
VARIABLES
    u,          \* currentUI: the userInterface fields besides funcs/running/m
    win,        \* the platform window (position, monitor, size, flags)
    platform,   \* what deviceScale() and glfwScale() return on this platform
    running,    \* u.running, guarded by u.m
    loopPc,     \* RunMainThreadLoop: "idle", "select", "call", "returned",
                \* "focusWait" (inside update's wait for the input focus) or
                \* "resizeWait" (inside setScreenSize's wait that never ends)
    loopErr,    \* the value RunMainThreadLoop returned
    sendq,      \* goroutines blocked in `u.funcs <- ...`, oldest first
    executing,  \* goroutines whose unit has been received and not yet finished
    termCh,     \* the termination channel ch: "empty", or the value to receive
    pc,         \* per goroutine: position in the public function / runOnMainThread
    op,         \* per goroutine: the call in progress (or the last one)
    done,       \* per goroutine: ch of the current runOnMainThread call is closed
    runs,       \* per goroutine: how often the unit of the current call has run
    err,        \* per goroutine: the err variable captured by the unit
    resB,       \* per goroutine: the bool captured by the unit (r, f, shouldClose...)
    resS,       \* per goroutine: the float64 captured by the unit (s, actualScale)
    runErr,     \* the error Run is going to return
    accepted,   \* history: the tuple of the last setScreenSize call that returned true
    fsEntry,    \* history: <<x, y>> the window had when fullscreen was entered,
                \* <<>> when windowed or after a size/scale change in fullscreen
    closedInWait, \* history: the close was requested during the unfocused wait
    issued,     \* history, per goroutine of SetCursorVisibility: what the
                \* dispatch loop was doing when SetCursorVisibility was called
    loaded,     \* the operand of the g.SetSize call update has already
                \* loaded: <<"width", w>> or <<"height", h>>, <<>> if none
    gSize,      \* the (width, height, scale) update has just passed to
                \* g.SetSize in this frame, <<>> if none
    seen        \* history: the (width, height) of the geometry in which this
                \* frame's actualScale was computed, <<>> if none

vars == <<u, win, platform, running, loopPc, loopErr, sendq, executing, termCh,
          pc, op, done, runs, err, resB, resS, runErr, accepted, fsEntry,
          closedInWait, issued, loaded, gSize, seen>>

\* initialize(): lines 75-81; the numeric fields start at Go's zero value.
InitU ==
    [width |-> 0, height |-> 0, scale |-> Zero, deviceScale |-> Zero,
     glfwScale |-> Zero, fullscreen |-> FALSE, fullscreenScale |-> Zero,
     sizeChanged |-> TRUE, origPosX |-> NoPos, origPosY |-> NoPos]

\* glfw.CreateWindow(16, 16, "", nil, nil) with the Visible hint off; a
\* hidden window does not have the input focus.
InitWin ==
    [pos |-> CreatePos, monitor |-> FALSE,
     size |-> <<PlaceholderSize, PlaceholderSize>>, visible |-> FALSE,
     focused |-> FALSE, shouldClose |-> FALSE, cursor |-> "normal", terminated |-> 0]

NoOp == [kind |-> "none", width |-> 0, height |-> 0, scale |-> Zero, flag |-> FALSE]

MkOp(k, w, h, s, f) == [width |-> w, scale |-> s, height |-> h, kind |-> k, flag |-> f]

Setters == {"SetScreenSize", "SetScreenScale", "SetFullscreen"}
Getters == {"ScreenScale", "IsFullscreen"}

\* The calls a goroutine can make on the public control surface.
ApiOps ==
    {MkOp("SetScreenSize", sz[1], sz[2], Zero, FALSE) : sz \in Sizes}
    \cup {MkOp("SetScreenScale", 0, 0, sc, FALSE) : sc \in Scales}
    \cup {MkOp("SetFullscreen", 0, 0, Zero, f) : f \in BOOLEAN}
    \cup {MkOp(k, 0, 0, Zero, FALSE) : k \in Getters}

\* The calls used to load the dispatcher from several goroutines at once:
\* one that changes the geometry and one that reads it.
DispatchOps ==
    {MkOp("SetFullscreen", 0, 0, Zero, TRUE), MkOp("IsFullscreen", 0, 0, Zero, FALSE)}

\* The arguments Run is called with.
RunOps == {MkOp("Run", 640, 480, <<1, 1>>, FALSE), MkOp("Run", 160, 120, <<1, 1>>, FALSE)}

\* The state initialize leaves, on one of the platforms in P.
InitOn(P) ==
    /\ u = InitU
    /\ win = InitWin
    /\ platform \in {[deviceScale |-> ToRat(ps[1]), glfwScale |-> ToRat(ps[2])] :
                        ps \in P}
    /\ running = FALSE
    /\ loopPc = "idle"
    /\ loopErr = "none"
    /\ sendq = <<>>
    /\ executing = {}
    /\ termCh = "empty"
    /\ pc = [t \in Threads |-> "idle"]
    /\ op = [t \in Threads |-> NoOp]
    /\ done = [t \in Threads |-> FALSE]
    /\ runs = [t \in Threads |-> 0]
    /\ err = [t \in Threads |-> "nil"]
    /\ resB = [t \in Threads |-> FALSE]
    /\ resS = [t \in Threads |-> Zero]
    /\ runErr = "nil"
    /\ accepted = [width |-> 0, height |-> 0, scale |-> Zero, fullscreen |-> FALSE]
    /\ fsEntry = <<>>
    /\ closedInWait = FALSE
    /\ issued = [t \in Threads |-> "none"]
    /\ loaded = <<>>
    /\ gSize = <<>>
    /\ seen = <<>>

Init == InitOn(PlatformScales)

\* A panic in any goroutine ends the process.
Crashed == \E t \in Threads : pc[t] = "panicked"

(***************************************************************************)
(* The units of work: what each closure passed to runOnMainThread does     *)
(* when the dispatch loop calls it.                                        *)
(***************************************************************************)
GeometryOps == Setters \cup {"Run"}

\* The (width, height, scale, fullscreen) tuple the unit passes to setScreenSize.
Request(o, uu) ==
    CASE o.kind = "SetScreenSize" ->
            [width |-> o.width, height |-> o.height, scale |-> uu.scale,
             fullscreen |-> uu.fullscreen]
      [] o.kind = "SetScreenScale" ->
            [width |-> uu.width, height |-> uu.height, scale |-> o.scale,
             fullscreen |-> uu.fullscreen]
      [] o.kind = "SetFullscreen" ->
            [width |-> uu.width, height |-> uu.height, scale |-> uu.scale,
             fullscreen |-> o.flag]
      [] OTHER ->
            [width |-> o.width, height |-> o.height, scale |-> o.scale,
             fullscreen |-> FALSE]

UnitResult(uu, w, b, s, e, ret, calls) ==
    [u |-> uu, win |-> w, b |-> b, s |-> s, err |-> e, ret |-> ret, calls |-> calls,
     hangs |-> FALSE]

\* A unit stuck in setScreenSize's wait for the framebuffer-size callback.
UnitHangs(r) ==
    [u |-> r.u, win |-> r.win, b |-> FALSE, s |-> Zero, err |-> "nil", ret |-> FALSE,
     calls |-> r.calls, hangs |-> TRUE]

\* u.setScreenSize called with the tuple q.
setScreenSizeOf(uu, w, p, q) ==
    setScreenSize(uu, w, p, q.width, q.height, q.scale, q.fullscreen)

\* `r = u.setScreenSize(...); return nil`, r being what setScreenSize produced.
setterResult(r) ==
    IF r.hangs THEN UnitHangs(r)
    ELSE UnitResult(r.u, r.win, r.ret, Zero, "nil", r.ret, r.calls)

\* SetScreenSize / SetScreenScale / SetFullscreen: r = u.setScreenSize(...)
setterUnit(o, uu, w, p) == setterResult(setScreenSizeOf(uu, w, p, Request(o, uu)))

\* Lines 222-230: title, Show (the window gets the input focus), and SetPos
\* at the centred position computed
\* from glfwSize (sz).  adjustWindowPosition is platform code; it is the
\* identity off Windows.
showCentred(sz, w, calls) ==
    UnitResult(sz.u,
               [w EXCEPT !.visible = TRUE, !.focused = TRUE,
                         !.pos = <<GoDiv(VideoWidth - sz.w, 2), GoDiv(VideoHeight - sz.h, 3)>>],
               FALSE, Zero, "nil", TRUE, calls \o <<"SetTitle", "Show", "SetPos">>)

\* The unit of Run after its setScreenSize call, which produced r.
runResult(r, p) ==
    IF r.hangs THEN UnitHangs(r)
    ELSE IF ~r.ret
    THEN UnitResult(r.u, r.win, FALSE, Zero, "fail", FALSE, r.calls)
    ELSE showCentred(glfwSize(r.u, p), r.win, r.calls)

\* The unit of Run: set the screen size, show the window and centre it.
runUnit(o, uu, w, p) == runResult(setScreenSizeOf(uu, w, p, Request(o, uu)), p)

\* actualScale = u.actualScreenScale(); sizeChanged = true
sizeChangedResult(a, w) == UnitResult(a.u, w, TRUE, a.v, "nil", FALSE, <<>>)

\* update's second unit without the assignment of line 297.
sizeChangedUnitKeepsFlag(uu, w, p) ==
    IF ~uu.sizeChanged
    THEN UnitResult(uu, w, FALSE, Zero, "nil", FALSE, <<>>)
    ELSE sizeChangedResult(actualScreenScale(uu, p), w)

\* update's second unit: consume sizeChanged and compute the actual scale.
sizeChangedUnit(uu, w, p) ==
    IF ~uu.sizeChanged
    THEN UnitResult(uu, w, FALSE, Zero, "nil", FALSE, <<>>)
    ELSE sizeChangedResult(actualScreenScale([uu EXCEPT !.sizeChanged = FALSE], p), w)

\* u.pollEvents(): PollEvents, and the glfwScale and fullscreen-fit caches
\* are filled for currentInput.update.  update's third unit calls it once
\* and then once per iteration of its wait for the input focus.
pollEventsUnit(uu, w, p) ==
    UnitResult(getScale(withGlfwScale(uu, p), p).u, w, FALSE, Zero, "nil", FALSE,
               <<"PollEvents">>)

Unit(o, uu, w, p) ==
    CASE o.kind \in Setters -> setterUnit(o, uu, w, p)
      [] o.kind = "Run" -> runUnit(o, uu, w, p)
      [] o.kind = "ScreenScale" -> UnitResult(uu, w, FALSE, uu.scale, "nil", FALSE, <<>>)
      [] o.kind = "IsFullscreen" ->
            UnitResult(uu, w, uu.fullscreen, Zero, "nil", FALSE, <<>>)
      [] o.kind = "SetCursorVisibility" ->
            UnitResult(uu, [w EXCEPT !.cursor = IF o.flag THEN "normal" ELSE "hidden"],
                       FALSE, Zero, "nil", FALSE, <<"SetInputMode">>)
      [] o.kind = "shouldClose" ->
            UnitResult(uu, w, w.shouldClose, Zero, "nil", FALSE, <<"ShouldClose">>)
      [] o.kind = "sizeChanged" -> sizeChangedUnit(uu, w, p)
      [] o.kind = "pollEvents" -> pollEventsUnit(uu, w, p)
      [] o.kind = "swapBuffers" ->
            UnitResult(uu, w, FALSE, Zero, "nil", FALSE, <<"SwapBuffers">>)
      [] o.kind = "terminate" ->
            UnitResult(uu, [w EXCEPT !.terminated = @ + 1], FALSE, Zero, "nil", FALSE,
                       <<"Terminate">>)

(***************************************************************************)
(* The dispatcher.                                                         *)
(***************************************************************************)
isRunning == running

\* u.funcs is made by initialize and never assigned again, so the
\* "already closed" test of runOnMainThread never succeeds.
funcsIsNil == FALSE

\* RunMainThreadLoop, line 90: setRunning(true), then enter the loop.
LoopStart ==
    /\ ~Crashed
    /\ loopPc = "idle"
    /\ running' = TRUE
    /\ loopPc' = "select"
    /\ UNCHANGED <<u, win, platform, loopErr, sendq, executing, termCh, pc, op,
                   done, runs, err, resB, resS, runErr, accepted, fsEntry, closedInWait, issued, loaded, gSize, seen>>

\* A receive that takes the sender that blocked last.
DequeueLast(q) == [t |-> q[Len(q)], rest |-> SubSeq(q, 1, Len(q) - 1)]

\* A receive on the unbuffered channel u.funcs completes the send of the
\* goroutine that has been blocked longest (Go's channel wait queue is FIFO).
Dequeue(q) == [t |-> Head(q), rest |-> Tail(q)]

\* A loop that starts each closure with `go f()` and selects again at once.
LoopRecvAsync ==
    /\ ~Crashed
    /\ loopPc = "select"
    /\ sendq # <<>>
    /\ LET d == Dequeue(sendq)
       IN  /\ sendq' = d.rest
           /\ executing' = executing \cup {d.t}
           /\ pc' = [pc EXCEPT ![d.t] = "waiting"]
    /\ UNCHANGED <<u, win, platform, running, loopPc, loopErr, termCh, op, done, runs,
                   err, resB, resS, runErr, accepted, fsEntry, closedInWait, issued, loaded, gSize, seen>>

\* case f := <-currentUI.funcs: receive a closure; f() runs next.
LoopRecv ==
    /\ ~Crashed
    /\ loopPc = "select"
    /\ sendq # <<>>
    /\ LET d == Dequeue(sendq)
       IN  /\ sendq' = d.rest
           /\ executing' = executing \cup {d.t}
           /\ pc' = [pc EXCEPT ![d.t] = "waiting"]
    /\ loopPc' = "call"
    /\ UNCHANGED <<u, win, platform, running, loopErr, termCh, op, done, runs,
                   err, resB, resS, runErr, accepted, fsEntry, closedInWait, issued, loaded, gSize, seen>>

\* History of the fullscreen toggle, for a unit that ran setScreenSize.
NextFsEntry(uu, w, r) ==
    IF ~r.ret THEN fsEntry
    ELSE IF ~uu.fullscreen /\ r.u.fullscreen THEN w.pos
    ELSE <<>>

\* The effect of the closure of goroutine t, r being what its unit produced:
\* the captured variables are written and ch is closed.
RunClosure(t, r) ==
    /\ u' = r.u
    /\ win' = r.win
    /\ resB' = [resB EXCEPT ![t] = r.b]
    /\ resS' = [resS EXCEPT ![t] = r.s]
    /\ err' = [err EXCEPT ![t] = r.err]
    /\ accepted' = IF op[t].kind \in GeometryOps /\ r.ret
                   THEN Request(op[t], u) ELSE accepted
    /\ fsEntry' = IF op[t].kind \in GeometryOps
                  THEN NextFsEntry(u, win, r) ELSE fsEntry
    /\ seen' = IF op[t].kind = "sizeChanged" /\ r.b THEN <<u.width, u.height>> ELSE seen
    /\ runs' = [runs EXCEPT ![t] = @ + 1]
    /\ done' = [done EXCEPT ![t] = TRUE]

\* The closure of goroutine t got as far as r and stays in setScreenSize's
\* `for` loop: it polls events for ever, ch is never closed and the dispatch
\* loop never selects again.
RunClosureForEver(t, r) ==
    /\ u' = r.u
    /\ win' = r.win
    /\ loopPc' = "resizeWait"
    /\ UNCHANGED <<resB, resS, err, accepted, fsEntry, runs, done, executing, seen>>

\* Lines 308-309: after its first pollEvents, update's third unit finds the
\* window without the input focus and enters the `for` loop.
WaitsForFocus(o, w) == o.kind = "pollEvents" /\ ~w.focused

\* The closure of goroutine t, having done r, sleeps in the unfocused wait.
RunClosureUnfocused(t, r) ==
    /\ u' = r.u
    /\ win' = r.win
    /\ loopPc' = "focusWait"
    /\ UNCHANGED <<resB, resS, err, accepted, fsEntry, runs, done, executing, seen>>

\* f(): the closure runs err = f() and then close(ch).
LoopCall(t) ==
    /\ ~Crashed
    /\ loopPc = "call"
    /\ t \in executing
    /\ IF Unit(op[t], u, win, platform).hangs
       THEN RunClosureForEver(t, Unit(op[t], u, win, platform))
       ELSE IF WaitsForFocus(op[t], win)
       THEN RunClosureUnfocused(t, Unit(op[t], u, win, platform))
       ELSE /\ RunClosure(t, Unit(op[t], u, win, platform))
            /\ executing' = executing \ {t}
            /\ loopPc' = "select"
    /\ UNCHANGED <<platform, running, loopErr, sendq, termCh, pc, op, runErr,
                   closedInWait, issued, loaded, gSize>>

\* An iteration of the unfocused wait that goes on sleeping whatever the
\* window's close flag says.
LeavesFocusWaitOnFocusOnly(w) == w.focused

\* Lines 308-315, one iteration of the wait: time.Sleep, u.pollEvents(),
\* `if u.window.ShouldClose() { return nil }`, and the loop condition.
LeavesFocusWait(w) == w.shouldClose \/ w.focused

\* One iteration of the unfocused wait inside update's third unit, which
\* ends the unit or sleeps again.
FocusWaitPoll(t) ==
    /\ ~Crashed
    /\ loopPc = "focusWait"
    /\ t \in executing
    /\ IF LeavesFocusWait(win)
       THEN /\ RunClosure(t, Unit(op[t], u, win, platform))
            /\ executing' = executing \ {t}
            /\ loopPc' = "select"
       ELSE UNCHANGED <<u, win, resB, resS, err, accepted, fsEntry, runs, done,
                        executing, loopPc, seen>>
    /\ UNCHANGED <<platform, running, loopErr, sendq, termCh, pc, op, runErr,
                   closedInWait, issued, loaded, gSize>>

\* case err := <-ch: return err, and the deferred setRunning(false).
LoopTerminate ==
    /\ ~Crashed
    /\ loopPc = "select"
    /\ termCh # "empty"
    /\ loopErr' = termCh
    /\ running' = FALSE
    /\ loopPc' = "returned"
    /\ UNCHANGED <<u, win, platform, sendq, executing, termCh, pc, op, done,
                   runs, err, resB, resS, runErr, accepted, fsEntry, closedInWait, issued, loaded, gSize, seen>>

\* runOnMainThread up to the send, for goroutine t with closure o: the nil
\* test, make(chan), `u.funcs <- ...`.
Send(t, o) ==
    /\ op' = [op EXCEPT ![t] = o]
    /\ IF funcsIsNil
       THEN /\ pc' = [pc EXCEPT ![t] = "returned"]
            /\ UNCHANGED sendq
       ELSE /\ pc' = [pc EXCEPT ![t] = "sending"]
            /\ sendq' = Append(sendq, t)

\* A public function whose isRunning test failed: the setters panic, the
\* getters return the zero value of their local.
NotRunning(t, o) ==
    /\ op' = [op EXCEPT ![t] = o]
    /\ pc' = [pc EXCEPT ![t] = IF o.kind \in Setters THEN "panicked" ELSE "returned"]
    /\ UNCHANGED sendq

(***************************************************************************)
(* The public control surface, called from the goroutines in Callers.      *)
(***************************************************************************)
\* A public function whose isRunning test succeeded: u.m is released again
\* and the call of runOnMainThread comes next.
PassedTest(t, o) ==
    /\ op' = [op EXCEPT ![t] = o]
    /\ pc' = [pc EXCEPT ![t] = "checked"]
    /\ UNCHANGED sendq

\* SetScreenSize, SetScreenScale, SetFullscreen, ScreenScale, IsFullscreen
\* up to the isRunning test: the locals r, s, f and `if !u.isRunning()`.
Call(t, o) ==
    /\ ~Crashed
    /\ pc[t] \in {"idle", "returned"}
    /\ IF isRunning THEN PassedTest(t, o) ELSE NotRunning(t, o)
    /\ done' = [done EXCEPT ![t] = FALSE]
    /\ runs' = [runs EXCEPT ![t] = 0]
    /\ err' = [err EXCEPT ![t] = "nil"]
    /\ resB' = [resB EXCEPT ![t] = FALSE]
    /\ resS' = [resS EXCEPT ![t] = Zero]
    /\ UNCHANGED <<u, win, platform, running, loopPc, loopErr, executing,
                   termCh, runErr, accepted, fsEntry, closedInWait, issued, loaded, gSize, seen>>

\* The runOnMainThread call of a public function that passed its test: the
\* send happens whatever has become of u.running since the test.
runOnMainThread(t) ==
    /\ ~Crashed
    /\ pc[t] = "checked"
    /\ Send(t, op[t])
    /\ UNCHANGED <<u, win, platform, running, loopPc, loopErr, executing, termCh,
                   done, runs, err, resB, resS, runErr, accepted, fsEntry,
                   closedInWait, issued, loaded, gSize, seen>>

\* What the dispatch loop is doing, as seen by a call of SetCursorVisibility.
LoopPhase ==
    CASE loopPc = "idle" -> "before"
      [] loopPc = "returned" -> "after"
      [] OTHER -> "running"

\* The goroutines SetCursorVisibility can start: those not alive.
FreeCursorThreads == {g \in CursorThreads : pc[g] = "idle"}

\* SetCursorVisibility(visible), called by goroutine t: `go func() {...}()`
\* and return; the new goroutine has not run yet.
SetCursorVisibility(t, visible) ==
    /\ ~Crashed
    /\ pc[t] \in {"idle", "returned"}
    /\ FreeCursorThreads # {}
    /\ LET g == CHOOSE x \in FreeCursorThreads : \A y \in FreeCursorThreads : x <= y
       IN  /\ pc' = [pc EXCEPT ![g] = "started"]
           /\ op' = [op EXCEPT ![g] = MkOp("SetCursorVisibility", 0, 0, Zero, visible)]
           /\ issued' = [issued EXCEPT ![g] = LoopPhase]
    /\ UNCHANGED <<u, win, platform, running, loopPc, loopErr, sendq, executing,
                   termCh, done, runs, err, resB, resS, runErr, accepted, fsEntry,
                   closedInWait, loaded, gSize, seen>>

\* The goroutine of SetCursorVisibility calls runOnMainThread: it sends its
\* closure without any isRunning test.
CursorSend(g) ==
    /\ ~Crashed
    /\ pc[g] = "started"
    /\ Send(g, op[g])
    /\ UNCHANGED <<u, win, platform, running, loopPc, loopErr, executing, termCh,
                   done, runs, err, resB, resS, runErr, accepted, fsEntry,
                   closedInWait, issued, loaded, gSize, seen>>

\* `<-ch; return err` in runOnMainThread, and the return of the public
\* function (for SetCursorVisibility, the end of its goroutine).
Return(t) ==
    /\ ~Crashed
    /\ pc[t] = "waiting"
    /\ done[t]
    /\ pc' = [pc EXCEPT ![t] = "idle"]
    /\ op' = [op EXCEPT ![t] = NoOp]
    /\ done' = [done EXCEPT ![t] = FALSE]
    /\ runs' = [runs EXCEPT ![t] = 0]
    /\ err' = [err EXCEPT ![t] = "nil"]
    /\ resB' = [resB EXCEPT ![t] = FALSE]
    /\ resS' = [resS EXCEPT ![t] = Zero]
    /\ UNCHANGED <<u, win, platform, running, loopPc, loopErr, sendq, executing,
                   termCh, runErr, accepted, fsEntry, closedInWait, issued, loaded, gSize, seen>>

(***************************************************************************)
(* Run and the frame loop, on goroutine RunThread.                         *)
(***************************************************************************)
\* Run(width, height, scale, title, g): submit the set-up unit.
RunStart(o) ==
    /\ ~Crashed
    /\ pc[RunThread] = "idle"
    /\ op' = [op EXCEPT ![RunThread] = o]
    /\ pc' = [pc EXCEPT ![RunThread] = "sending"]
    /\ sendq' = Append(sendq, RunThread)
    /\ UNCHANGED <<u, win, platform, running, loopPc, loopErr, executing,
                   termCh, done, runs, err, resB, resS, runErr, accepted, fsEntry, closedInWait, issued, loaded, gSize, seen>>

\* Submit the next unit of the frame loop.
RunSubmit(kind, e) ==
    /\ op' = [op EXCEPT ![RunThread] = MkOp(kind, 0, 0, Zero, FALSE)]
    /\ pc' = [pc EXCEPT ![RunThread] = "sending"]
    /\ sendq' = Append(sendq, RunThread)
    /\ done' = [done EXCEPT ![RunThread] = FALSE]
    /\ runs' = [runs EXCEPT ![RunThread] = 0]
    /\ err' = [err EXCEPT ![RunThread] = "nil"]
    /\ resB' = [resB EXCEPT ![RunThread] = FALSE]
    /\ resS' = [resS EXCEPT ![RunThread] = Zero]
    /\ runErr' = e
    /\ UNCHANGED termCh

\* Run returns e; its caller then delivers e on the termination channel.
RunExit(e) ==
    /\ pc' = [pc EXCEPT ![RunThread] = "exited"]
    /\ runErr' = e
    /\ termCh' = e
    /\ UNCHANGED <<op, done, runs, err, resB, resS, sendq>>

\* The geometry as a unit in execution is about to leave it: the values a
\* read from another goroutine can also get while that unit runs.
InFlight == {Unit(op[t], u, win, platform).u : t \in {x \in executing : loopPc = "call"}}

\* The widths and heights a load of u.width / u.height can get now.
Widths == {u.width} \cup {x.width : x \in InFlight}
Heights == {u.height} \cup {x.height : x \in InFlight}

\* update is at line 303 with sizeChanged true.
AtSetSize ==
    /\ pc[RunThread] = "waiting" /\ done[RunThread]
    /\ op[RunThread].kind = "sizeChanged" /\ resB[RunThread]

\* Line 303, `g.SetSize(u.width, u.height, actualScale)`: the operands
\* u.width and u.height are loaded on Run's goroutine, outside any unit and
\* without u.m, by two loads in an order the language leaves open.  This is
\* the first of the two.
LoadOperand ==
    /\ ~Crashed
    /\ AtSetSize
    /\ loaded = <<>> /\ gSize = <<>>
    /\ \/ \E w \in Widths : loaded' = <<"width", w>>
       \/ \E h \in Heights : loaded' = <<"height", h>>
    /\ UNCHANGED <<u, win, platform, running, loopPc, loopErr, sendq, executing,
                   termCh, pc, op, done, runs, err, resB, resS, runErr, accepted,
                   fsEntry, closedInWait, issued, gSize, seen>>

\* Line 303: the load of the other operand, and the call of g.SetSize.
CallSetSize ==
    /\ ~Crashed
    /\ AtSetSize
    /\ loaded # <<>>
    /\ IF loaded[1] = "width"
       THEN \E h \in Heights : gSize' = <<loaded[2], h, resS[RunThread]>>
       ELSE \E w \in Widths : gSize' = <<w, loaded[2], resS[RunThread]>>
    /\ loaded' = <<>>
    /\ UNCHANGED <<u, win, platform, running, loopPc, loopErr, sendq, executing,
                   termCh, pc, op, done, runs, err, resB, resS, runErr, accepted,
                   fsEntry, closedInWait, issued, seen>>

\* The code of Run, update and loop between two runOnMainThread calls, up
\* to the send of the next closure; in the frame's sizeChanged arm, what
\* follows g.SetSize.  outcome is what g.Update() and
\* BindScreenFramebuffer() do in this frame.
RunNext(outcome) ==
    /\ ~Crashed
    /\ pc[RunThread] = "waiting"
    /\ done[RunThread]
    /\ AtSetSize => gSize # <<>>
    /\ LET k == op[RunThread].kind
       IN  CASE k = "Run" ->
                   IF err[RunThread] # "nil" THEN RunExit(err[RunThread])
                   ELSE RunSubmit("shouldClose", runErr)
             [] k = "shouldClose" ->
                   IF resB[RunThread] THEN RunSubmit("terminate", "RegularTermination")
                   ELSE RunSubmit("sizeChanged", runErr)
             [] k = "sizeChanged" -> RunSubmit("pollEvents", runErr)
             [] k = "pollEvents" ->
                   IF outcome = "ok" THEN RunSubmit("swapBuffers", runErr)
                   ELSE RunSubmit("terminate", outcome)
             [] k = "swapBuffers" -> RunSubmit("shouldClose", runErr)
             [] k = "terminate" -> RunExit(runErr)
    /\ IF op[RunThread].kind = "sizeChanged"
       THEN UNCHANGED <<gSize, seen>>
       ELSE gSize' = <<>> /\ seen' = <<>>
    /\ UNCHANGED <<u, win, platform, running, loopPc, loopErr, executing,
                   accepted, fsEntry, closedInWait, issued, loaded>>

(***************************************************************************)
(* The user and the platform.                                              *)
(***************************************************************************)
\* The user drags the visible, windowed window to another position.
UserMoveWindow(pos) ==
    /\ ~Crashed
    /\ win.visible /\ ~win.monitor /\ win.terminated = 0
    /\ win.pos # pos
    /\ win' = [win EXCEPT !.pos = pos]
    /\ UNCHANGED <<u, platform, running, loopPc, loopErr, sendq, executing, termCh,
                   pc, op, done, runs, err, resB, resS, runErr, accepted, fsEntry, closedInWait, issued, loaded, gSize, seen>>

\* The user asks the window to close.
UserClose ==
    /\ ~Crashed
    /\ win.visible /\ ~win.shouldClose /\ win.terminated = 0
    /\ win' = [win EXCEPT !.shouldClose = TRUE]
    /\ closedInWait' = (loopPc = "focusWait")
    /\ UNCHANGED <<u, platform, running, loopPc, loopErr, sendq, executing, termCh,
                   pc, op, done, runs, err, resB, resS, runErr, accepted, fsEntry,
                   issued, loaded, gSize, seen>>

\* The user gives the input focus to another window, or back to this one.
UserFocus(focused) ==
    /\ ~Crashed
    /\ win.visible /\ win.terminated = 0
    /\ win.focused # focused
    /\ win' = [win EXCEPT !.focused = focused]
    /\ UNCHANGED <<u, platform, running, loopPc, loopErr, sendq, executing, termCh,
                   pc, op, done, runs, err, resB, resS, runErr, accepted, fsEntry,
                   closedInWait, issued, loaded, gSize, seen>>

\* The dispatcher under load: NumCallers goroutines and the frame loop.
Next ==
    \/ LoopStart
    \/ LoopRecv
    \/ \E t \in Threads : LoopCall(t)
    \/ LoopTerminate
    \/ \E t \in Callers : \E o \in DispatchOps : Call(t, o)
    \/ \E t \in Callers : runOnMainThread(t)
    \/ \E t \in Callers : Return(t)
    \/ \E o \in RunOps : RunStart(o)
    \/ LoadOperand
    \/ CallSetSize
    \/ \E outcome \in {"ok", "updateError", "bindError"} : RunNext(outcome)
    \/ UserClose

\* The dispatcher does not depend on the platform's scales.
InitDispatch == Init /\ platform = [deviceScale |-> ToRat(1), glfwScale |-> ToRat(1)]

Spec == InitDispatch /\ [][Next]_vars

\* The whole control surface called from one goroutine, the user moving
\* the window, and the frame loop, which ends by an error of a frame.
NextGeometry ==
    \/ LoopStart
    \/ LoopRecv
    \/ \E t \in Threads : LoopCall(t)
    \/ LoopTerminate
    \/ \E o \in ApiOps : Call(FirstCaller, o)
    \/ runOnMainThread(FirstCaller)
    \/ Return(FirstCaller)
    \/ \E o \in RunOps : RunStart(o)
    \/ LoadOperand
    \/ CallSetSize
    \/ \E outcome \in {"ok", "updateError", "bindError"} : RunNext(outcome)
    \/ \E pos \in Positions : UserMoveWindow(pos)

SpecGeometry == Init /\ [][NextGeometry]_vars

\* Scale changes too small to change the window's size in window units.
FineScales == {<<1001, 1000>>, <<2, 1>>}

\* The frame loop with the user taking the focus away and giving it back,
\* and one goroutine changing the scale: the two waits inside units.
NextWaits ==
    \/ LoopStart
    \/ LoopRecv
    \/ \E t \in Threads : LoopCall(t)
    \/ \E t \in Threads : FocusWaitPoll(t)
    \/ LoopTerminate
    \/ \E sc \in FineScales : Call(FirstCaller, MkOp("SetScreenScale", 0, 0, sc, FALSE))
    \/ runOnMainThread(FirstCaller)
    \/ Return(FirstCaller)
    \/ \E o \in RunOps : RunStart(o)
    \/ LoadOperand
    \/ CallSetSize
    \/ \E outcome \in {"ok", "updateError", "bindError"} : RunNext(outcome)
    \/ \E focused \in BOOLEAN : UserFocus(focused)
    \/ UserClose

SpecWaits == InitDispatch /\ [][NextWaits]_vars

\* Screen sizes the display's height limits (4:3) and one its width limits.
FitSizes == Sizes \cup {<<640, 240>>}

\* Size, scale and fullscreen requests from one goroutine, with the frame
\* loop, on every platform: the scales the geometry caches and hands out.
NextScale ==
    \/ LoopStart
    \/ LoopRecv
    \/ \E t \in Threads : LoopCall(t)
    \/ LoopTerminate
    \/ \E sz \in FitSizes : Call(FirstCaller, MkOp("SetScreenSize", sz[1], sz[2], Zero, FALSE))
    \/ \E sc \in Scales : Call(FirstCaller, MkOp("SetScreenScale", 0, 0, sc, FALSE))
    \/ \E f \in BOOLEAN : Call(FirstCaller, MkOp("SetFullscreen", 0, 0, Zero, f))
    \/ runOnMainThread(FirstCaller)
    \/ Return(FirstCaller)
    \/ \E o \in RunOps : RunStart(o)
    \/ LoadOperand
    \/ CallSetSize
    \/ \E outcome \in {"ok", "updateError", "bindError"} : RunNext(outcome)

InitScale == InitOn(ScaledPlatformScales)

SpecScale == InitScale /\ [][NextScale]_vars

\* SetCursorVisibility called at any time, with the frame loop.
NextCursor ==
    \/ LoopStart
    \/ LoopRecv
    \/ \E t \in Threads : LoopCall(t)
    \/ LoopTerminate
    \/ \E visible \in BOOLEAN : SetCursorVisibility(FirstCaller, visible)
    \/ \E g \in CursorThreads : CursorSend(g)
    \/ \E g \in CursorThreads : Return(g)
    \/ \E o \in RunOps : RunStart(o)
    \/ LoadOperand
    \/ CallSetSize
    \/ \E outcome \in {"ok", "updateError", "bindError"} : RunNext(outcome)
    \/ UserClose

SpecCursor == InitDispatch /\ [][NextCursor]_vars

(***************************************************************************)
(* Properties.                                                             *)
(***************************************************************************)
\* The step in which the dispatch loop runs the unit of goroutine t.
UnitRuns(t) == ~done[t] /\ done'[t]

\* The step in which goroutine t enters a public function with call o.
Enters(t) ==
    /\ pc[t] \in {"idle", "returned"}
    /\ op'[t].kind # "none"
    /\ pc'[t] # pc[t] \/ op'[t] # op[t]

\* The error the unit of goroutine t has to report: only Run's unit can
\* fail, and it fails exactly when it did not establish the geometry.
UnitError(t) ==
    IF op[t].kind = "Run" /\ u.width = 0 THEN "fail" ELSE "nil"

\* C1: the dispatch loop never has two units in execution; the unit of a
\* call runs at most once, has not run while its caller is still blocked in
\* the send, and has run exactly once, leaving its own error, when the
\* caller is released; Run returns the error of its set-up unit.
C1_OneUnitAtATime ==
    /\ Cardinality(executing) <= 1
    /\ \A t \in Threads :
        /\ runs[t] <= 1
        /\ pc[t] \in {"checked", "sending"} => (runs[t] = 0 /\ ~done[t])
        /\ t \in executing => (pc[t] = "waiting" /\ runs[t] = 0 /\ ~done[t])
        /\ (pc[t] = "waiting" /\ t \notin executing) =>
              (done[t] /\ runs[t] = 1 /\ err[t] = UnitError(t))
    /\ (pc[RunThread] = "exited" /\ op[RunThread].kind = "Run") => runErr = "fail"

\* A caller's unit has finished while the other goroutines are blocked in
\* their sends.
C1_Witness ==
    \E t \in Callers :
        /\ pc[t] = "waiting" /\ done[t] /\ runs[t] = 1
        /\ Len(sendq) = 2

\* C2: the unit the loop starts is always the one submitted earliest among
\* the pending ones, and it starts only when no unit is in execution and
\* every unit received before has released its caller (closed its channel).
C2_SubmissionOrder ==
    [][\A t \in Threads :
          (t \notin executing /\ t \in executing') =>
              /\ sendq # <<>>
              /\ t = Head(sendq)
              /\ executing = {}
              /\ \A x \in Threads \ {t} : pc[x] = "waiting" => done[x]]_vars

\* The unit of a caller that submitted first is in execution while the
\* frame loop's next unit and another caller's unit, submitted after it in
\* that order, are blocked in their sends.
C2_Witness ==
    \E t \in Callers : \E x \in Callers \ {t} :
        /\ executing = {t}
        /\ sendq = <<RunThread, x>>
        /\ op[RunThread].kind = "swapBuffers"

\* C3: once RunMainThreadLoop has returned, no caller of runOnMainThread is
\* blocked in the send: the call has returned nil without running its unit.
C3_NoCallerBlockedAfterShutdown ==
    loopPc = "returned" => \A t \in Threads : pc[t] # "sending"

\* C4: as long as Run has not established a geometry (the width is still
\* the 0 of initialize), SetScreenSize, SetScreenScale and SetFullscreen
\* panic: no unit is dispatched for them, so none returns a value or
\* changes the geometry state.
C4_SettersPanicBeforeBaseline ==
    u.width = 0 =>
        \A t \in Callers :
            op[t].kind \in Setters => (pc[t] = "panicked" /\ runs[t] = 0)

\* C5: ScreenScale and IsFullscreen return 0 / false without dispatching
\* when the loop is not running; when it is running they dispatch, and
\* their unit reads the scale / fullscreen flag of the last accepted
\* geometry request (the zero values before the first one).
C5_Getters ==
    [][\A t \in Callers :
          /\ (Enters(t) /\ op'[t].kind \in Getters) =>
                IF running
                THEN pc'[t] = "checked" /\ sendq' = sendq
                ELSE /\ pc'[t] = "returned"
                     /\ resS'[t] = Zero /\ resB'[t] = FALSE
                     /\ runs'[t] = 0 /\ sendq' = sendq
          /\ (pc[t] = "checked" /\ pc'[t] # "checked") =>
                (pc'[t] = "sending" /\ sendq' = Append(sendq, t))
          /\ (UnitRuns(t) /\ op[t].kind = "ScreenScale") =>
                (resS'[t] = u.scale /\ resS'[t] = accepted.scale)
          /\ (UnitRuns(t) /\ op[t].kind = "IsFullscreen") =>
                (resB'[t] = u.fullscreen /\ resB'[t] = accepted.fullscreen)]_vars

\* ScreenScale has dispatched and read the scale 2 that SetScreenScale set,
\* with the window in fullscreen mode.
C5_Witness ==
    \E t \in Callers :
        /\ op[t].kind = "ScreenScale" /\ done[t]
        /\ resS[t] = <<2, 1>>
        /\ u.fullscreen

\* The requested tuple equals the current geometry.
SameTuple(q, uu) ==
    /\ q.width = uu.width /\ q.height = uu.height
    /\ q.scale = uu.scale /\ q.fullscreen = uu.fullscreen

\* C6: a unit that calls setScreenSize with the current tuple gets false
\* and changes no field of the userInterface and nothing of the window,
\* and setScreenSize makes no platform call.
C6_SameTupleChangesNothing ==
    [][\A t \in Threads :
          (UnitRuns(t) /\ op[t].kind \in GeometryOps /\ SameTuple(Request(op[t], u), u)) =>
              /\ u' = u
              /\ win' = win
              /\ op[t].kind \in Setters => resB'[t] = FALSE
              /\ op[t].kind = "Run" => err'[t] = "fail"
              /\ Unit(op[t], u, win, platform).calls = <<>>]_vars

\* SetScreenScale(2) was answered false at scale 2, after the frame loop had
\* consumed sizeChanged.
C6_Witness ==
    \E t \in Callers :
        /\ op[t].kind = "SetScreenScale" /\ done[t] /\ ~resB[t]
        /\ op[t].scale = u.scale
        /\ u.width = 640
        /\ ~u.sizeChanged

\* The width, in window units, of the window the requested tuple needs
\* (what glfwSize computes for it).
WindowUnitWidth(q) == RTrunc(RMul(RMul(ToRat(q.width), q.scale), platform.glfwScale))

\* C7: a request for a windowed geometry whose window-unit width is below
\* minWindowWidth returns false, with scale, width, height, fullscreen,
\* sizeChanged and the remembered position as before and the window untouched.
C7_TooSmallIsRejected ==
    [][\A t \in Callers :
          (/\ UnitRuns(t) /\ op[t].kind \in Setters
           /\ ~Request(op[t], u).fullscreen
           /\ WindowUnitWidth(Request(op[t], u)) < minWindowWidth) =>
              /\ resB'[t] = FALSE
              /\ u'.scale = u.scale
              /\ u'.width = u.width /\ u'.height = u.height
              /\ u'.fullscreen = u.fullscreen
              /\ u'.sizeChanged = u.sizeChanged
              /\ u'.origPosX = u.origPosX /\ u'.origPosY = u.origPosY
              /\ win' = win]_vars

\* C8: leaving fullscreen, with no size or scale change since it was
\* entered, puts the window at the position it had when fullscreen was entered.
C8_ToggleRestoresPosition ==
    [][(fsEntry # <<>> /\ u.fullscreen /\ ~u'.fullscreen) => win'.pos = fsEntry]_vars

\* C9: while the window stays fullscreen, the remembered position does not change.
C9_RememberedPositionKept ==
    [][(u.fullscreen /\ u'.fullscreen) =>
          (u'.origPosX = u.origPosX /\ u'.origPosY = u.origPosY)]_vars

\* C10: between units, the remembered position differs from the sentinel
\* (-1, -1) exactly when the fullscreen flag is set.
C10_OrigPosIffFullscreen ==
    executing = {} =>
        ((u.origPosX # NoPos \/ u.origPosY # NoPos) <=> u.fullscreen)

\* C11 as stated: once the close was requested during the unfocused wait,
\* the wait is left at its next iteration and Run ends with
\* RegularTermination, whatever Update and the framebuffer bind return.
C11_CloseInWaitEndsRegularly ==
    closedInWait =>
        /\ loopPc = "focusWait" => LeavesFocusWait(win)
        /\ pc[RunThread] = "exited" => runErr = "RegularTermination"

\* C11 amended: once the close was requested during the unfocused wait, the
\* wait is left at its next iteration, the next close check reads true, and
\* Run ends with RegularTermination unless Update or the framebuffer bind
\* failed in between, in which case it ends with that error.
C11_CloseInWaitEndsRun ==
    closedInWait =>
        /\ loopPc = "focusWait" => LeavesFocusWait(win)
        /\ (op[RunThread].kind = "shouldClose" /\ done[RunThread]) => resB[RunThread]
        /\ pc[RunThread] = "exited" =>
              runErr \in {"RegularTermination", "updateError", "bindError"}

\* The close came during the unfocused wait, Update and the bind succeeded,
\* the next close check ended the loop and Run returned RegularTermination.
C11_Witness ==
    /\ closedInWait
    /\ ~win.focused
    /\ pc[RunThread] = "exited"
    /\ runErr = "RegularTermination"
    /\ loopPc = "returned"

\* C12: glfw.Terminate is never executed twice, and when Run has ended, by
\* whatever path, it has been executed exactly once.
C12_TornDownExactlyOnce ==
    /\ win.terminated <= 1
    /\ pc[RunThread] = "exited" => win.terminated = 1

\* C13: SetCursorVisibility returns to its caller at once, and the request
\* of a call made while the dispatch loop is not running (before it starts,
\* after it ended) is dropped: its unit never runs, and its goroutine is
\* not left blocked when the dispatch loop has returned.
C13_CursorRequestDropped ==
    [][\A g \in CursorThreads :
          /\ (pc[g] = "idle" /\ pc'[g] = "started") =>
                pc'[FirstCaller] \in {"idle", "returned"}
          /\ issued'[g] \in {"before", "after"} =>
                /\ runs'[g] = 0
                /\ ~(loopPc' = "returned" /\ pc'[g] \in {"started", "sending"})]_vars

\* The geometry of uu is the tuple q.
HasGeometry(uu, q) ==
    /\ uu.width = q.width /\ uu.height = q.height
    /\ uu.scale = q.scale /\ uu.fullscreen = q.fullscreen

\* C14: when setScreenSize returns true the geometry is the requested tuple
\* and sizeChanged is true; when it returns false, width, height, scale,
\* fullscreen and sizeChanged are what they were.  The request
\* (640, 480, 1, false) made in the initial state returns true.
C14_TrueAppliesFalseKeeps ==
    [][\A t \in Threads :
          (UnitRuns(t) /\ op[t].kind \in GeometryOps) =>
              /\ IF (op[t].kind \in Setters /\ resB'[t])
                    \/ (op[t].kind = "Run" /\ err'[t] = "nil")
                 THEN HasGeometry(u', Request(op[t], u)) /\ u'.sizeChanged
                 ELSE HasGeometry(u', u) /\ u'.sizeChanged = u.sizeChanged
              /\ (u = InitU /\ op[t] = MkOp("Run", 640, 480, <<1, 1>>, FALSE)) =>
                    (err'[t] = "nil" /\ u'.width = 640 /\ u'.height = 480
                     /\ u'.scale = <<1, 1>> /\ ~u'.fullscreen)]_vars

\* SetScreenSize(160, 120) was answered false by the width guard after the
\* frame loop had consumed sizeChanged: the geometry is still 640 wide and
\* sizeChanged still false.
C14_Witness ==
    \E t \in Callers :
        /\ op[t].kind = "SetScreenSize" /\ op[t].width = 160
        /\ done[t] /\ ~resB[t]
        /\ u.width = 640
        /\ ~u.sizeChanged

\* The platform call named c is among calls.
Called(c, calls) == \E i \in 1..Len(calls) : calls[i] = c

\* C15: whenever a unit's setScreenSize calls window.SetSize(w, h), w is at
\* least minWindowWidth; a request that needs a narrower window makes no
\* platform call.
C15_ResizedWindowIsWideEnough ==
    [][\A t \in Threads :
          (UnitRuns(t) /\ op[t].kind \in GeometryOps) =>
              /\ Called("SetSize", Unit(op[t], u, win, platform).calls) =>
                    win'.size[1] >= minWindowWidth
              /\ (~Request(op[t], u).fullscreen
                  /\ WindowUnitWidth(Request(op[t], u)) < minWindowWidth) =>
                    Unit(op[t], u, win, platform).calls = <<>>]_vars

\* C16: the dispatch loop is never inside a wait of setScreenSize for a
\* framebuffer-size callback that does not come: every accepted request
\* completes and releases its caller.
C16_ResizeWaitEnds == loopPc # "resizeWait"

\* The step in which update calls g.SetSize.
SetSizeCalled == gSize = <<>> /\ gSize' # <<>>

\* C17: the width and height update passes to g.SetSize are those of the
\* geometry in which the scale passed with them was computed, or the three
\* values are those of the current geometry: one snapshot of one state.
C17_SetSizeGetsOneSnapshot ==
    [][SetSizeCalled =>
          \/ <<gSize'[1], gSize'[2]>> = seen
          \/ gSize' = <<u.width, u.height, actualScreenScale(u, platform).v>>]_vars

\* The (width, height, actualScreenScale()) of the current geometry.
CurrentSize == <<u.width, u.height, actualScreenScale(u, platform).v>>

\* A unit in execution is about to accept a geometry request.
AcceptInFlight ==
    \E t \in executing :
        /\ loopPc = "call" /\ op[t].kind \in Setters
        /\ Unit(op[t], u, win, platform).ret

\* C18: the frame's check returns the flag it found, clears it, and computes
\* the actual scale when it was set; update calls g.SetSize exactly when the
\* check found it set; nothing else clears the flag; Run's set-up and every
\* accepted request leave it set (so the first frame notifies and each
\* accepted request is notified in a later frame); and a g.SetSize call that
\* does not carry the current width, height and actual scale is made with
\* the flag set again or about to be set, so that another call follows.
C18_SizeChangedConsumedOnce ==
    [][/\ (UnitRuns(RunThread) /\ op[RunThread].kind = "sizeChanged") =>
              /\ resB'[RunThread] = u.sizeChanged
              /\ ~u'.sizeChanged
              /\ u.sizeChanged => resS'[RunThread] = CurrentSize[3]
       /\ SetSizeCalled => AtSetSize
       /\ (op[RunThread].kind = "sizeChanged" /\ op'[RunThread].kind = "pollEvents") =>
              (gSize # <<>> <=> resB[RunThread])
       /\ (u.sizeChanged /\ ~u'.sizeChanged) =>
              (UnitRuns(RunThread) /\ op[RunThread].kind = "sizeChanged")
       /\ (UnitRuns(RunThread) /\ op[RunThread].kind = "Run" /\ err'[RunThread] = "nil") =>
              u'.sizeChanged
       /\ \A t \in Callers :
              (UnitRuns(t) /\ op[t].kind \in Setters /\ resB'[t]) => u'.sizeChanged
       /\ (SetSizeCalled /\ gSize' # CurrentSize) =>
              (u.sizeChanged \/ AcceptInFlight)]_vars

\* update has passed the 160 x 120 geometry accepted in fullscreen mode to
\* g.SetSize, and the flag is clear.
C18_Witness ==
    /\ gSize # <<>> /\ gSize[1] = 160
    /\ gSize = CurrentSize
    /\ u.fullscreen
    /\ ~u.sizeChanged

\* min(displayWidth, displayHeight * (width / height)) / windowScale / width
ClaimedFit(width, height, windowScale) ==
    RDiv(RDiv(minScale(ToRat(VideoWidth),
                       RMul(ToRat(VideoHeight), RDiv(ToRat(width), ToRat(height)))),
              windowScale),
         ToRat(width))

\* C19 as stated: while fullscreen, actualScreenScale() is
\* min(displayWidth, displayHeight * (width / height)) / windowScale / width.
C19_FullscreenActualScale ==
    u.fullscreen =>
        actualScreenScale(u, platform).v = ClaimedFit(u.width, u.height, platform.glfwScale)

\* C19 amended: while fullscreen, actualScreenScale() is that value times
\* the device scale.
C19_FullscreenActualScaleTimesDevice ==
    u.fullscreen =>
        actualScreenScale(u, platform).v =
            RMul(ClaimedFit(u.width, u.height, platform.glfwScale), platform.deviceScale)

\* Fullscreen with the 160 x 120 screen on the platform whose window scale
\* and device scale are 2: the height limits the fit (4.5), the actual scale is 9.
C19_Witness ==
    /\ u.fullscreen /\ u.width = 160
    /\ platform.glfwScale = <<2, 1>>
    /\ u.fullscreenScale = <<9, 2>>
    /\ actualScreenScale(u, platform).v = <<9, 1>>

\* C20: between units a cached fullscreen-fit scale is the fit of the
\* current width and height, and no step changes a cached value while
\* width and height stay the same.
C20_FitScaleNeverStale ==
    [][/\ (executing' = {} /\ u'.fullscreenScale # Zero) =>
              u'.fullscreenScale = ClaimedFit(u'.width, u'.height, platform.glfwScale)
       /\ (u.fullscreenScale # Zero /\ u'.width = u.width /\ u'.height = u.height) =>
              u'.fullscreenScale = u.fullscreenScale]_vars

\* SetScreenSize(160, 120) changed the size in fullscreen mode and the fit
\* of the new size is cached: 9 where the window scale is 1.
C20_Witness ==
    /\ executing = {}
    /\ u.fullscreen /\ u.width = 160
    /\ platform.glfwScale = <<1, 1>>
    /\ u.fullscreenScale = <<9, 1>>
    /\ resB[FirstCaller]
    /\ op[FirstCaller].kind = "SetScreenSize" /\ op[FirstCaller].width = 160

====
